---- MODULE Spec2Model ----
(***************************************************************************)
(* The Gmail checking pipeline of the case summarizer:                     *)
(*   gmail_cli.main -> authenticate_gmail -> process_court_emails          *)
(*     -> search_emails / get_email_body / extract_links_from_text         *)
(*     -> process_uscourts_link -> extract_text_from_pdf -> summarize_text  *)
(*     -> send_summary_email                                               *)
(* One run is one invocation of gmail_cli.main for one fixed date; runs    *)
(* follow each other and share the file system and the OAuth token.        *)
(* The mailbox, the court's web site and the language model are the        *)
(* environment: what each call returns is chosen when the call is made.    *)
(* The functions that work on text (send_summary_email,                    *)
(* _extract_structured_info, extract_links_from_text and the page parsing  *)
(* of extract_metadata_from_landing_page) are also specified on their own, *)
(* each over a bounded set of inputs; SpecRace adds a second run started   *)
(* while the first is past its gate, and SpecRerun keeps how the run       *)
(* before ended, for the properties of one run after another.              *)
(***************************************************************************)
EXTENDS Integers, Sequences, FiniteSets, TLC

\* ------------------------------------------------------------- bounds
MaxEmails == 1      \* messages one sender's search returns
MaxLinks == 2       \* landing links in one message body
MaxDocs == 2        \* distinct opinions (PDF urls) on the court's site
MaxRuns == 2        \* invocations of gmail_cli.main
MaxSummaries == 2   \* records in a list handed to send_summary_email
MaxWords == 2       \* URLs in a message body handed to extract_links_from_text
MaxHeading == 5     \* pieces of an <h1> after its first word
MaxAnchors == 3     \* anchors with a href on a landing page

\* gmail_cli.py:37: the default --sender list has two addresses
NumSenders == 2

\* Python's None, for the optional integers below (documents are 1..MaxDocs)
None == 0
Docs == 1..MaxDocs

\* ---------------------------------------------------------- environment
\* What the outside world answers for one landing link:
\*   landing  "unreachable": requests.get raises; "nopdf": page without a
\*            PDF anchor; "page": page with a PDF anchor
\*   prec     the page text says Precedential and no Non-Precedential
\*   named    the page has an <h1>
\*   download the PDF download succeeds
\*   text     pypdf extracts non-blank text
\*   kind     what the document is
\*   meta     the model finds both DATE and CASE
\*   api      "ok", or "timeout": the model service fails on the first call
Kinds == {"patent", "nonpatent", "rule42b", "rule36"}

AllProfiles ==
    [landing : {"unreachable", "nopdf", "page"}, prec : BOOLEAN, named : BOOLEAN,
     download : BOOLEAN, text : BOOLEAN, kind : Kinds, meta : BOOLEAN,
     api : {"ok", "timeout"}]

\* One representative per observable behaviour: a field the code never
\* gets to read (the download of an unreachable page, ...) is held at a default.
Profiles ==
    {p \in AllProfiles :
        /\ p.landing = "unreachable" => ~p.prec /\ ~p.named
        /\ p.landing # "page" => ~p.download
        /\ ~p.download => ~p.text
        /\ ~p.text => p.api = "ok"
        /\ ~p.text \/ p.api = "timeout" => p.kind = "nonpatent" /\ ~p.meta}

\* A summary file under <summary_dir>/<date>/: its subdirectory and its name,
\* <date.with.dots>_<case>.txt ("dated") or <pdf stem>-summary.txt ("stem").
Artifact(sub, form, d) == [sub |-> sub, form |-> form, doc |-> d]

\* A summary file some earlier processing of the date left behind
OldArtifact == Artifact("precedential", "dated", 1)

VARIABLES
    credsFile,   \* credentials.json exists
    apiKey,      \* OPENAI_API_KEY is set
    token,       \* token.json: "valid", "expired" (with a refresh token), "none"
    dateDir,     \* <summary_dir>/<date> exists
    artifacts,   \* the *.txt files under <summary_dir>/<date>
    pdfs,        \* the files under pdf_dir
    runs,        \* invocations so far
    pc,          \* where the current run is
    error,       \* the exception that ended the run, or "none"
    rc,          \* what process_court_emails returned (-1: nothing yet)
    force,       \* --force
    email_to,    \* --email-to names a recipient
    senderIdx,   \* the sender the search loop is at
    emails,      \* len(emails): messages found so far
    emailIdx,    \* the message the loop is at
    linksLeft,   \* links of the current message not yet processed
    summaries,   \* the CaseSummary list of the run
    pdf_count,
    eff,         \* what the run has done to the outside world (counters)
    hist,        \* what the run has seen (history, read by the properties only)
    digest,      \* the last call of send_summary_email
    call,        \* a function called on its own: its name, argument and result
    other        \* a second run of gmail_cli.main started while this one runs

vars == <<credsFile, apiKey, token, dateDir, artifacts, pdfs, runs, pc, error, rc,
          force, email_to, senderIdx, emails, emailIdx, linksLeft, summaries,
          pdf_count, eff, hist, digest, call, other>>

envVars == <<credsFile, apiKey>>
fsVars == <<dateDir, artifacts, pdfs>>
argVars == <<force, email_to>>
loopVars == <<senderIdx, emails, emailIdx, linksLeft>>
sideVars == <<call, other>>

NoEffects ==
    [search |-> 0, fetch |-> 0, download |-> 0, model |-> 0, write |-> 0,
     sendCall |-> 0, send |-> 0]

NoHistory(arts) ==
    [artifacts0 |-> arts, gate |-> "none", links |-> 0, attempts |-> <<>>,
     written |-> {}]

\* No function is being called on its own
NoCall == [fn |-> "none", arg |-> None, out |-> None, done |-> FALSE]

Ended == {"idle", "returned", "crashed", "exited"}

\* ------------------------------------------------------ uscourts_scraper
\* extract_metadata_from_landing_page: (pdf_url, is_precedential, case_name).
\* A request that fails returns (None, False, None); otherwise each of the
\* three signals is read from the page on its own.
extract_metadata_from_landing_page(p, d) ==
    IF p.landing = "unreachable"
    THEN <<None, FALSE, None>>
    ELSE <<IF p.landing = "page" THEN d ELSE None,
           p.prec,
           IF p.named THEN d ELSE None>>

\* download_pdf: the local path, or None when the request fails
download_pdf(p, d) == IF p.download THEN d ELSE None

\* (mutant) process_uscourts_link handing back six values, the last two the
\* opinion date and the case number, both unknown
process_uscourts_link_six(p, d) ==
    LET m == extract_metadata_from_landing_page(p, d)
    IN  IF m[1] = None
        THEN <<None, FALSE, None, None, None, None>>
        ELSE <<download_pdf(p, d), m[2], m[3], m[1], None, None>>

\* process_uscourts_link: a tuple of FOUR values on both of its returns
process_uscourts_link(p, d) ==
    LET m == extract_metadata_from_landing_page(p, d)
    IN  IF m[1] = None
        THEN <<None, FALSE, None, None>>
        ELSE <<download_pdf(p, d), m[2], m[3], m[1]>>

\* The requests process_uscourts_link makes: the landing page always, the
\* PDF when the page gave a PDF url.
LandingFetches(p) == 1
PdfDownloads(p) == IF p.landing = "page" THEN 1 ELSE 0

\* ---------------------------------------------------- openai_summarizer
\* SummarizationResult as summarize_text builds it (the text fields other
\* than the summary body are left out). It has no is_rule_36_affirmance.
SummarizationResult(d, opinion_date, case_number, patent, dismissal) ==
    [combined_summary |-> d, opinion_date |-> opinion_date,
     case_number |-> case_number, is_patent_case |-> patent,
     is_rule_42b_dismissal |-> dismissal]

\* _extract_structured_info on the model's answer for a document of this
\* kind: the prompt asks about Rule 42(b) and patent only.
structured_info(p) ==
    [is_rule_42b_dismissal |-> p.kind = "rule42b",
     is_patent_case |-> p.kind = "patent"]

\* summarize_text(text, opinion_date=..., case_number=...) on non-blank text:
\* what it raises, how many model calls it made, and its result.
\* _create_client raises without an API key; no model call is guarded.
summarize_text(p, d, opinion_date, case_number, key) ==
    LET needMeta == opinion_date = None \/ case_number = None
        found == IF p.meta THEN d ELSE None
        date == IF opinion_date = None /\ needMeta THEN found ELSE opinion_date
        case == IF case_number = None /\ needMeta THEN found ELSE case_number
        info == structured_info(p)
        nothing == SummarizationResult(None, None, None, FALSE, FALSE)
    IN  IF ~key
        THEN [raised |-> "OpenAIError", calls |-> 0, result |-> nothing]
        ELSE IF p.api = "timeout"
        THEN [raised |-> "APITimeoutError", calls |-> 1, result |-> nothing]
        ELSE [raised |-> "none",
              calls |-> IF needMeta THEN 3 ELSE 2,
              result |-> SummarizationResult(d, date, case, info.is_patent_case,
                                             info.is_rule_42b_dismissal)]

\* --------------------------------------------------------- gmail_checker
CaseSummary(case_name, prec, patent, dismissal, affirmance) ==
    [case_name |-> case_name, is_precedential |-> prec, is_patent_case |-> patent,
     is_rule_42b_dismissal |-> dismissal, is_rule_36_affirmance |-> affirmance]

CaseSummaries ==
    {CaseSummary(n, a, b, c, e) : n \in Docs, a \in BOOLEAN, b \in BOOLEAN,
                                  c \in BOOLEAN, e \in BOOLEAN}

\* send_summary_email, lines 302-307: the five lists
rule_42b_dismissals(ss) ==
    SelectSeq(ss, LAMBDA s : s.is_rule_42b_dismissal)

rule_36_affirmances(ss) ==
    SelectSeq(ss, LAMBDA s : s.is_rule_36_affirmance)

\* (mutant) the patent list without the test of the disposition flags
patent_precedential_any_disposition(ss) ==
    SelectSeq(ss, LAMBDA s : s.is_patent_case /\ s.is_precedential)

patent_precedential(ss) ==
    SelectSeq(ss, LAMBDA s : ~s.is_rule_42b_dismissal /\ ~s.is_rule_36_affirmance
                             /\ s.is_patent_case /\ s.is_precedential)

patent_non_precedential(ss) ==
    SelectSeq(ss, LAMBDA s : ~s.is_rule_42b_dismissal /\ ~s.is_rule_36_affirmance
                             /\ s.is_patent_case /\ ~s.is_precedential)

non_patent(ss) ==
    SelectSeq(ss, LAMBDA s : ~s.is_rule_42b_dismissal /\ ~s.is_rule_36_affirmance
                             /\ ~s.is_patent_case)

\* The sections of the HTML body, lines 321-466: each list is rendered in
\* full under its own heading, the two disposition lists under one section.
Sections(ss) ==
    [patent_precedential |-> patent_precedential(ss),
     patent_non_precedential |-> patent_non_precedential(ss),
     non_patent |-> non_patent(ss),
     dismissals |-> rule_42b_dismissals(ss),
     affirmances |-> rule_36_affirmances(ss)]

NoSections == Sections(<<>>)

\* send_summary_email(service, to_email, summaries, ...): with no summaries
\* it returns False at once; else it builds the body and calls the Gmail
\* API once; it returns whether that call succeeded (apiOk).
send_summary_email(ss, apiOk) ==
    IF ss = <<>>
    THEN [called |-> TRUE, handed |-> ss, sections |-> NoSections,
          sent |-> FALSE, returned |-> FALSE]
    ELSE [called |-> TRUE, handed |-> ss, sections |-> Sections(ss),
          sent |-> TRUE, returned |-> apiOk]

NoDigest ==
    [called |-> FALSE, handed |-> <<>>, sections |-> NoSections,
     sent |-> FALSE, returned |-> FALSE]

\* The variables of one run of gmail_cli.main, as a record, and their values
\* before the run starts
NoLocals ==
    [pc |-> "idle", error |-> "none", rc |-> -1, force |-> FALSE,
     email_to |-> FALSE, senderIdx |-> 0, emails |-> 0, emailIdx |-> 0,
     linksLeft |-> 0, summaries |-> <<>>, pdf_count |-> 0, eff |-> NoEffects,
     hist |-> NoHistory({}), digest |-> NoDigest]

\* What is kept of a run that is over: how it ended, whether it got past the
\* gate, what it wrote, and whether one of its links was answered all the
\* way to a summary (linkOk), and whether its digest went out (delivered)
NoOutcome ==
    [pc |-> "idle", error |-> "none", force |-> FALSE, gate |-> "none",
     fetched |-> 0, written |-> {}, linkOk |-> FALSE, delivered |-> FALSE]

\* No second run
NoOther == [state |-> "none", run |-> NoLocals, outcome |-> NoOutcome]

\* authenticate_gmail: a valid saved token is used as it is; an expired one
\* with a refresh token is refreshed; otherwise credentials.json is needed
\* (FileNotFoundError without it) and the OAuth flow runs. ok: whether the
\* refresh or the flow succeeds. The token is saved after either.
authenticate_gmail(tok, creds, ok) ==
    IF tok = "valid" THEN [raised |-> "none", token |-> tok]
    ELSE IF tok = "expired"
    THEN IF ok THEN [raised |-> "none", token |-> "valid"]
               ELSE [raised |-> "RefreshError", token |-> tok]
    ELSE IF ~creds THEN [raised |-> "FileNotFoundError", token |-> tok]
    ELSE IF ok THEN [raised |-> "none", token |-> "valid"]
               ELSE [raised |-> "AuthError", token |-> tok]

\* (mutant) glob instead of rglob: only files directly in the date directory,
\* where no summary is ever written
existing_summaries_glob(dir, arts) ==
    IF dir THEN {a \in arts : a.sub = "."} ELSE {}

\* process_court_emails, lines 542-549: list(date_summary_dir.rglob("*.txt"))
existing_summaries(dir, arts) == IF dir THEN arts ELSE {}

\* (mutant) the gate with the test of the directory turned round
skips_processing_no_dir(f, dir, arts) ==
    ~f /\ ~dir /\ existing_summaries(dir, arts) # {}

\* (mutant) the gate on the date directory alone, whatever is in it
skips_processing_dir(f, dir, arts) == ~f /\ dir

\* (mutant) the gate without the test of --force
skips_processing_forced(f, dir, arts) ==
    dir /\ existing_summaries(dir, arts) # {}

\* ... and the idempotency gate on it
skips_processing(f, dir, arts) ==
    ~f /\ dir /\ existing_summaries(dir, arts) # {}

\* process_court_emails, lines 588-647: one pass of the link loop for a link
\* the outside world answers with profile p about document d. The six-name
\* unpacking of line 590 needs a tuple of six.
LinkPass(p, d, key, sums, count) ==
    LET ret == process_uscourts_link(p, d)
        base == [raised |-> "none", model |-> 0, wrote |-> {},
                 summaries |-> sums, pdf_count |-> count]
    IN  IF Len(ret) # 6
        THEN [base EXCEPT !.raised = "ValueError"]
        ELSE
        LET pdf_path == ret[1]
            is_precedential == ret[2]
            case_name == ret[3]
            opinion_date == ret[5]
            case_number == ret[6]
        IN  IF pdf_path = None THEN base
            ELSE IF ~p.text THEN base
            ELSE
            LET s == summarize_text(p, d, opinion_date, case_number, key)
                result == s.result
                form == IF result.opinion_date # None /\ result.case_number # None
                        THEN "dated" ELSE "stem"
                subdir == IF is_precedential THEN "precedential"
                          ELSE "non-precedential"
                written == [base EXCEPT !.model = s.calls,
                                        !.wrote = {Artifact(subdir, form, d)},
                                        !.pdf_count = count + 1]
            IN  IF s.raised # "none"
                THEN [base EXCEPT !.raised = s.raised, !.model = s.calls]
                ELSE IF case_name = None THEN written
                ELSE IF "is_rule_36_affirmance" \notin DOMAIN result
                THEN [written EXCEPT !.raised = "AttributeError"]
                ELSE [written EXCEPT !.summaries =
                        Append(sums, CaseSummary(case_name, is_precedential,
                                                 result.is_patent_case,
                                                 result.is_rule_42b_dismissal,
                                                 result.is_rule_36_affirmance))]

\* (mutant) the digest step without the test of the collected records
sends_digest_recipient_only(to, sums) == to

\* process_court_emails, line 650
sends_digest(to, sums) == to /\ sums # <<>>

\* ------------------------------------------------------------ the runs
Init ==
    /\ credsFile \in BOOLEAN
    /\ apiKey \in BOOLEAN
    /\ token \in {"valid", "expired", "none"}
    /\ dateDir \in BOOLEAN
    /\ artifacts \in {{}, {OldArtifact}}
    /\ artifacts # {} => dateDir
    /\ pdfs = {}
    /\ runs = 0
    /\ pc = "idle"
    /\ error = "none"
    /\ rc = -1
    /\ force = FALSE
    /\ email_to = FALSE
    /\ senderIdx = 0
    /\ emails = 0
    /\ emailIdx = 0
    /\ linksLeft = 0
    /\ summaries = <<>>
    /\ pdf_count = 0
    /\ eff = NoEffects
    /\ hist = NoHistory({})
    /\ digest = NoDigest
    /\ call = NoCall
    /\ other = NoOther

\* gmail_cli.main is started, with or without --force and --email-to
Invoke ==
    /\ pc \in Ended
    /\ runs < MaxRuns
    /\ runs' = runs + 1
    /\ force' \in BOOLEAN
    /\ email_to' \in BOOLEAN
    /\ pc' = "auth"
    /\ error' = "none"
    /\ rc' = -1
    /\ senderIdx' = 0 /\ emails' = 0 /\ emailIdx' = 0 /\ linksLeft' = 0
    /\ summaries' = <<>>
    /\ pdf_count' = 0
    /\ eff' = NoEffects
    /\ hist' = NoHistory(artifacts)
    /\ digest' = NoDigest
    /\ UNCHANGED <<sideVars, envVars, token, fsVars>>

\* gmail_cli.main, lines 85-96: any exception of authenticate_gmail ends
\* the program with exit status 1 before process_court_emails is called
Authenticate ==
    /\ pc = "auth"
    /\ \E ok \in BOOLEAN :
        LET a == authenticate_gmail(token, credsFile, ok)
        IN  /\ token' = a.token
            /\ error' = a.raised
            /\ pc' = IF a.raised = "none" THEN "gate" ELSE "exited"
    /\ UNCHANGED <<sideVars, envVars, fsVars, runs, rc, argVars, loopVars, summaries,
                   pdf_count, eff, hist, digest>>

\* process_court_emails, lines 536-551: the gate, then the date directory
Gate ==
    /\ pc = "gate"
    /\ IF skips_processing(force, dateDir, artifacts)
       THEN /\ pc' = "returned"
            /\ rc' = 0
            /\ hist' = [hist EXCEPT !.gate = "skipped"]
            /\ UNCHANGED <<dateDir, senderIdx>>
       ELSE /\ pc' = "search"
            /\ dateDir' = TRUE
            /\ senderIdx' = 1
            /\ hist' = [hist EXCEPT !.gate = "passed"]
            /\ rc' = rc
    /\ UNCHANGED <<sideVars, envVars, token, artifacts, pdfs, runs, error, argVars, emails,
                   emailIdx, linksLeft, summaries, pdf_count, eff, digest>>

\* process_court_emails, lines 556-565, with search_emails for one sender:
\* the Gmail API answers with n messages or fails (found = -1). After the
\* last sender the run returns 0 if no message was found.
Search ==
    /\ pc = "search"
    /\ eff' = [eff EXCEPT !.search = @ + 1]
    /\ \E found \in -1..MaxEmails :
        IF found = -1
        THEN /\ pc' = "crashed"
             /\ error' = "HttpError"
             /\ UNCHANGED <<rc, senderIdx, emails, emailIdx>>
        ELSE /\ emails' = emails + found
             /\ error' = error
             /\ IF senderIdx < NumSenders
                THEN /\ senderIdx' = senderIdx + 1
                     /\ UNCHANGED <<pc, rc, emailIdx>>
                ELSE IF emails' = 0
                THEN /\ pc' = "returned"
                     /\ rc' = 0
                     /\ UNCHANGED <<senderIdx, emailIdx>>
                ELSE /\ pc' = "email"
                     /\ emailIdx' = 1
                     /\ UNCHANGED <<rc, senderIdx>>
    /\ UNCHANGED <<sideVars, envVars, token, fsVars, runs, argVars, linksLeft, summaries,
                   pdf_count, hist, digest>>

\* The for loop over the messages moves on: to the next message, or past the
\* last one to the digest step.
NextEmailPc == IF emailIdx < emails THEN "email" ELSE "digest"
NextEmailIdx == IF emailIdx < emails THEN emailIdx + 1 ELSE emailIdx

\* process_court_emails, lines 568-585: the body and the links of one
\* message. A blank body and a body without links are both skipped.
ProcessEmail ==
    /\ pc = "email"
    /\ \E body \in BOOLEAN, n \in 0..MaxLinks :
        IF ~body \/ n = 0
        THEN /\ pc' = NextEmailPc
             /\ emailIdx' = NextEmailIdx
             /\ UNCHANGED <<linksLeft, hist>>
        ELSE /\ pc' = "link"
             /\ linksLeft' = n
             /\ hist' = [hist EXCEPT !.links = @ + n]
             /\ UNCHANGED emailIdx
    /\ UNCHANGED <<sideVars, envVars, token, fsVars, runs, error, rc, argVars, senderIdx,
                   emails, summaries, pdf_count, eff, digest>>

\* process_court_emails, lines 588-647: the next link of the message
ProcessLink ==
    /\ pc = "link"
    /\ \E p \in Profiles, d \in Docs :
        LET o == LinkPass(p, d, apiKey, summaries, pdf_count)
        IN  /\ eff' = [eff EXCEPT !.fetch = @ + LandingFetches(p),
                                  !.download = @ + PdfDownloads(p),
                                  !.model = @ + o.model,
                                  !.write = @ + Cardinality(o.wrote)]
            /\ pdfs' = IF download_pdf(p, d) = None THEN pdfs ELSE pdfs \cup {d}
            /\ artifacts' = artifacts \cup o.wrote
            /\ summaries' = o.summaries
            /\ pdf_count' = o.pdf_count
            /\ hist' = [hist EXCEPT !.attempts = Append(@, [doc |-> d, answer |-> p]),
                                    !.written = @ \cup o.wrote]
            /\ error' = o.raised
            /\ IF o.raised # "none"
               THEN /\ pc' = "crashed"
                    /\ UNCHANGED <<emailIdx, linksLeft>>
               ELSE IF linksLeft > 1
               THEN /\ linksLeft' = linksLeft - 1
                    /\ UNCHANGED <<pc, emailIdx>>
               ELSE /\ linksLeft' = 0
                    /\ pc' = NextEmailPc
                    /\ emailIdx' = NextEmailIdx
    /\ UNCHANGED <<sideVars, envVars, token, dateDir, runs, rc, argVars, senderIdx, emails,
                   digest>>

\* process_court_emails, lines 649-659: the digest, then the count
Digest ==
    /\ pc = "digest"
    /\ IF sends_digest(email_to, summaries)
       THEN \E apiOk \in BOOLEAN :
              /\ digest' = send_summary_email(summaries, apiOk)
              /\ eff' = [eff EXCEPT !.sendCall = @ + 1,
                                    !.send = @ + IF digest'.sent THEN 1 ELSE 0]
       ELSE UNCHANGED <<digest, eff>>
    /\ rc' = pdf_count
    /\ pc' = "returned"
    /\ UNCHANGED <<sideVars, envVars, token, fsVars, runs, error, argVars, loopVars,
                   summaries, pdf_count, hist>>

Next ==
    \/ Invoke
    \/ Authenticate
    \/ Gate
    \/ Search
    \/ ProcessEmail
    \/ ProcessLink
    \/ Digest

Spec == Init /\ [][Next]_vars

\* ------------------------------------- send_summary_email on its own
\* send_summary_email called with any list of records
BoundedSeq(S, n) == UNION {[1..k -> S] : k \in 0..n}

InitDigest ==
    /\ credsFile = TRUE
    /\ apiKey = TRUE
    /\ token = "valid"
    /\ dateDir = FALSE
    /\ artifacts = {}
    /\ pdfs = {}
    /\ runs = 0
    /\ pc = "send"
    /\ error = "none"
    /\ rc = -1
    /\ force = FALSE
    /\ email_to = TRUE
    /\ senderIdx = 0
    /\ emails = 0
    /\ emailIdx = 0
    /\ linksLeft = 0
    /\ summaries \in BoundedSeq(CaseSummaries, MaxSummaries)
    /\ pdf_count = 0
    /\ eff = NoEffects
    /\ hist = NoHistory({})
    /\ digest = NoDigest
    /\ call = NoCall
    /\ other = NoOther

SendDigest ==
    /\ pc = "send"
    /\ \E apiOk \in BOOLEAN :
        /\ digest' = send_summary_email(summaries, apiOk)
        /\ eff' = [eff EXCEPT !.sendCall = @ + 1,
                              !.send = @ + IF digest'.sent THEN 1 ELSE 0]
    /\ pc' = "sent"
    /\ UNCHANGED <<sideVars, envVars, token, fsVars, runs, error, rc, argVars, loopVars,
                   summaries, pdf_count, hist>>

SpecDigest == InitDigest /\ [][SendDigest]_vars

\* ------------------------------------------- two runs at the same time
\* Nothing in process_court_emails locks the date: a second gmail_cli.main
\* may start while the first is between its gate (lines 542-549) and its
\* first write (line 624). The second run is taken at the earliest such
\* point, right after the first run's gate, and runs to its end there; then
\* the first run goes on. The two share the files and the token only.
CurrentLocals ==
    [pc |-> pc, error |-> error, rc |-> rc, force |-> force,
     email_to |-> email_to, senderIdx |-> senderIdx, emails |-> emails,
     emailIdx |-> emailIdx, linksLeft |-> linksLeft, summaries |-> summaries,
     pdf_count |-> pdf_count, eff |-> eff, hist |-> hist, digest |-> digest]

\* The outside world lets this link through to a summary: the landing page
\* has a PDF anchor, the PDF downloads and has text, the model answers.
Succeeds(p) ==
    p.landing = "page" /\ p.download /\ p.text /\ p.api = "ok"

\* What is kept of the run that has just ended
CurrentOutcome ==
    [pc |-> pc, error |-> error, force |-> force, gate |-> hist.gate,
     fetched |-> eff.fetch, written |-> hist.written,
     linkOk |-> \E i \in 1..Len(hist.attempts) : Succeeds(hist.attempts[i].answer),
     delivered |-> digest.sent]

\* A second gmail_cli.main is started while the first has passed its gate
\* and has not yet searched the mailbox
Preempt ==
    /\ other.state = "none"
    /\ pc = "search"
    /\ eff.search = 0
    /\ runs < MaxRuns
    /\ other' = [state |-> "suspended", run |-> CurrentLocals, outcome |-> NoOutcome]
    /\ runs' = runs + 1
    /\ force' \in BOOLEAN
    /\ email_to' \in BOOLEAN
    /\ pc' = "auth"
    /\ error' = "none"
    /\ rc' = -1
    /\ senderIdx' = 0 /\ emails' = 0 /\ emailIdx' = 0 /\ linksLeft' = 0
    /\ summaries' = <<>>
    /\ pdf_count' = 0
    /\ eff' = NoEffects
    /\ hist' = NoHistory(artifacts)
    /\ digest' = NoDigest
    /\ UNCHANGED <<call, envVars, token, fsVars>>

\* The second run is over; the first goes on from its search
Resume ==
    /\ other.state = "suspended"
    /\ pc \in {"returned", "crashed", "exited"}
    /\ other' = [state |-> "ended", run |-> NoLocals, outcome |-> CurrentOutcome]
    /\ pc' = other.run.pc
    /\ error' = other.run.error
    /\ rc' = other.run.rc
    /\ force' = other.run.force
    /\ email_to' = other.run.email_to
    /\ senderIdx' = other.run.senderIdx
    /\ emails' = other.run.emails
    /\ emailIdx' = other.run.emailIdx
    /\ linksLeft' = other.run.linksLeft
    /\ summaries' = other.run.summaries
    /\ pdf_count' = other.run.pdf_count
    /\ eff' = other.run.eff
    /\ hist' = other.run.hist
    /\ digest' = other.run.digest
    /\ UNCHANGED <<call, envVars, token, fsVars, runs>>

\* The date has no summary yet and the Gmail credentials are in place
InitRace ==
    /\ Init
    /\ credsFile
    /\ token = "valid"
    /\ artifacts = {}

NextRace ==
    \/ Next
    \/ Preempt
    \/ Resume

SpecRace == InitRace /\ [][NextRace]_vars

\* ------------------------------------------- one run after another
\* gmail_cli.main is started for the same date after an earlier run has
\* ended. Nothing of the earlier run is in the program but what it left on
\* disk; `other' keeps how it ended, for the properties to speak of it.
FirstInvoke ==
    /\ pc = "idle"
    /\ Invoke

InvokeAgain ==
    /\ pc \in {"returned", "crashed", "exited"}
    /\ runs < MaxRuns
    /\ other' = [state |-> "before", run |-> NoLocals, outcome |-> CurrentOutcome]
    /\ runs' = runs + 1
    /\ force' \in BOOLEAN
    /\ email_to' \in BOOLEAN
    /\ pc' = "auth"
    /\ error' = "none"
    /\ rc' = -1
    /\ senderIdx' = 0 /\ emails' = 0 /\ emailIdx' = 0 /\ linksLeft' = 0
    /\ summaries' = <<>>
    /\ pdf_count' = 0
    /\ eff' = NoEffects
    /\ hist' = NoHistory(artifacts)
    /\ digest' = NoDigest
    /\ UNCHANGED <<call, envVars, token, fsVars>>

\* The Gmail credentials and the API key are in place
InitRerun ==
    /\ Init
    /\ credsFile
    /\ apiKey
    /\ token = "valid"

NextRerun ==
    \/ FirstInvoke
    \/ InvokeAgain
    \/ Authenticate
    \/ Gate
    \/ Search
    \/ ProcessEmail
    \/ ProcessLink
    \/ Digest

SpecRerun == InitRerun /\ [][NextRerun]_vars

\* -------------------------------------------- functions on their own
\* Every variable but call: a function called on its own changes none of them
runVars == <<credsFile, apiKey, token, dateDir, artifacts, pdfs, runs, pc, error,
             rc, force, email_to, senderIdx, emails, emailIdx, linksLeft,
             summaries, pdf_count, eff, hist, digest, other>>

\* No run of gmail_cli.main is under way
NoRun ==
    /\ credsFile = TRUE
    /\ apiKey = TRUE
    /\ token = "valid"
    /\ dateDir = FALSE
    /\ artifacts = {}
    /\ pdfs = {}
    /\ runs = 0
    /\ pc = "idle"
    /\ error = "none"
    /\ rc = -1
    /\ force = FALSE
    /\ email_to = FALSE
    /\ senderIdx = 0
    /\ emails = 0
    /\ emailIdx = 0
    /\ linksLeft = 0
    /\ summaries = <<>>
    /\ pdf_count = 0
    /\ eff = NoEffects
    /\ hist = NoHistory({})
    /\ digest = NoDigest
    /\ other = NoOther

\* ---------------------------- openai_summarizer._extract_structured_info
\* The JSON object in the model's answer, key by key: the literal written for
\* the key, or "absent". "string" is a non-empty string where a boolean was
\* asked for, "[issue]" and "[judge]" non-empty arrays, "text" a non-empty
\* string, "" the empty string.
Objects ==
    [is_rule_42b_dismissal : {"absent", "true", "false", "string"},
     is_patent_case : {"absent", "true", "false"},
     patent_law_issues : {"absent", "[]", "[issue]", "null"},
     panel_judges : {"absent", "[judge]"},
     author_judge : {"absent", "judge"},
     case_summary : {"absent", "text"},
     major_holdings : {"absent", "", "text"}]

NoObject ==
    [is_rule_42b_dismissal |-> "absent", is_patent_case |-> "absent",
     patent_law_issues |-> "absent", panel_judges |-> "absent",
     author_judge |-> "absent", case_summary |-> "absent",
     major_holdings |-> "absent"]

\* The text _call_model returns for the structured prompt:
\*   "object"        a JSON object and nothing else
\*   "prose_object"  a JSON object with prose before and after it
\*   "array_object"  a JSON array holding one object: [{...}]
\*   "array_objects" a JSON array holding two objects: [{...},{...}]
\*   "braces"        text in braces that is no JSON: {oops}
\*   "empty"         the empty string (message.content was None or "")
\*   "prose"         text without braces that is no JSON
\*   "array", "number", "null", "string", "true"
\*                   a JSON value without braces that is no object
ObjectShapes == {"object", "prose_object", "array_object"}
OtherShapes ==
    {"array_objects", "braces", "empty", "prose", "array", "number", "null",
     "string", "true"}

Responses ==
    {[shape |-> sh, obj |-> o] : sh \in ObjectShapes, o \in Objects}
        \cup {[shape |-> sh, obj |-> NoObject] : sh \in OtherShapes}

\* Lines 235-237: the text has a "{" and, after it, a "}"
has_braces(r) ==
    r.shape \in ObjectShapes \cup {"array_objects", "braces"}

\* Lines 238-242: json.loads of the text from the first "{" to the last "}",
\* or of the whole text when it has no such braces. ok = FALSE is
\* JSONDecodeError; type is the type of the value loaded.
json_loads(r) ==
    IF has_braces(r)
    THEN IF r.shape \in ObjectShapes
         THEN [ok |-> TRUE, type |-> "object"]
         ELSE [ok |-> FALSE, type |-> "none"]
    ELSE IF r.shape \in {"empty", "prose"}
         THEN [ok |-> FALSE, type |-> "none"]
         ELSE [ok |-> TRUE, type |-> r.shape]

\* dict.get(key, default) on the loaded object, as a Python value
get(o, key, default) ==
    IF o[key] = "absent" THEN default
    ELSE IF o[key] = "null" THEN "None"
    ELSE o[key]

\* bool(data.get(key, False))
get_bool(o, key) == o[key] \in {"true", "string"}

\* Lines 258-266: the default values
default_structured_info ==
    [is_rule_42b_dismissal |-> FALSE, is_patent_case |-> FALSE,
     patent_law_issues |-> "[]", panel_judges |-> "[]",
     author_judge |-> "None", case_summary |-> "", major_holdings |-> ""]

\* Lines 245-253: each key of the loaded object with its default
structured_info_of(o) ==
    [is_rule_42b_dismissal |-> get_bool(o, "is_rule_42b_dismissal"),
     is_patent_case |-> get_bool(o, "is_patent_case"),
     patent_law_issues |-> get(o, "patent_law_issues", "[]"),
     panel_judges |-> get(o, "panel_judges", "[]"),
     author_judge |-> get(o, "author_judge", "None"),
     case_summary |-> get(o, "case_summary", ""),
     major_holdings |-> get(o, "major_holdings", "")]

\* _extract_structured_info on the model's answer r. Only JSONDecodeError
\* and ValueError are caught: data.get on a loaded value that is no object
\* raises AttributeError, which leaves the function.
extract_structured_info(r) ==
    LET data == json_loads(r)
    IN  IF ~data.ok
        THEN [raised |-> "none", result |-> default_structured_info]
        ELSE IF data.type # "object"
        THEN [raised |-> "AttributeError", result |-> default_structured_info]
        ELSE [raised |-> "none", result |-> structured_info_of(r.obj)]

InitStructured ==
    /\ NoRun
    /\ call \in {[fn |-> "_extract_structured_info", arg |-> r,
                  out |-> [raised |-> "none", result |-> default_structured_info],
                  done |-> FALSE] : r \in Responses}

ExtractStructuredInfo ==
    /\ call.fn = "_extract_structured_info"
    /\ ~call.done
    /\ call' = [call EXCEPT !.out = extract_structured_info(call.arg),
                            !.done = TRUE]
    /\ UNCHANGED runVars

SpecStructured == InitStructured /\ [][ExtractStructuredInfo]_vars

\* ------------------------------ uscourts_scraper.extract_links_from_text
\* A URL, in pieces: its scheme, the labels of its host, and the pieces of
\* the rest (path and query, and whatever the match drags along after it).
Hosts ==
    {<<"www", "cafc", "uscourts", "gov">>, <<"ecf", "cafc", "uscourts", "gov">>,
     <<"evil", "com">>}

Paths ==
    {<<"/opinion">>, <<"/opinion", ".pdf">>, <<"/", "?q=", "uscourts.gov">>}

Urls == [scheme : {"https", "httpx"}, host : Hosts, path : Paths]

\* One whitespace-delimited word of the body that holds a URL:
\*   wrap "none"     the URL written out, with a full stop after it if dot
\*   wrap "percent"  https://links-1.govdelivery.com/CL0/<URL with every "/"
\*                   written %2F>/1/0100...
\*   wrap "plain"    the same wrapper around the URL as it is
\*   wrap "malformed" as "percent", with an escape that is none ("%ZZ")
\*                   at the end of the target
BodyWords ==
    {w \in [wrap : {"none", "percent", "plain", "malformed"}, url : Urls,
             dot : BOOLEAN] :
        w.dot => w.wrap = "none"}

\* A "%" that no two hexadecimal digits follow
Malformed == "%ZZ"

\* What follows the target inside a wrapper
WrapperTail == <<"/1/0100">>

\* Line 176, group 1: "http", an optional "s", then everything up to the
\* first "/", quote, bracket or blank. A %2F is no "/": of a percent-encoded
\* target the group takes all, of a plain one the scheme and the colon only.
govdelivery_matches(w) ==
    IF w.wrap = "percent"
    THEN {[enc |-> TRUE, scheme |-> w.url.scheme, host |-> w.url.host,
           path |-> w.url.path]}
    ELSE IF w.wrap = "malformed"
    THEN {[enc |-> TRUE, scheme |-> w.url.scheme, host |-> w.url.host,
           path |-> w.url.path \o <<Malformed>>]}
    ELSE IF w.wrap = "plain"
    THEN {[enc |-> FALSE, scheme |-> w.url.scheme, host |-> <<>>, path |-> <<>>]}
    ELSE {}

\* urllib.parse.unquote: the %2F become "/", the rest stays, an escape that
\* is none included; it raises nothing
unquote(c) == [scheme |-> c.scheme, host |-> c.host, path |-> c.path]

\* 'uscourts.gov' in decoded_url.lower(): anywhere in the text of the URL
mentions_uscourts(u) ==
    \/ \E i \in 1..(Len(u.host) - 1) : u.host[i] = "uscourts" /\ u.host[i + 1] = "gov"
    \/ \E i \in 1..Len(u.path) : u.path[i] = "uscourts.gov"

\* Line 186, the host part: an optional "www.", ONE label of letters and
\* digits, then ".uscourts.gov"
direct_host(h) ==
    \/ Len(h) = 3 /\ h[2] = "uscourts" /\ h[3] = "gov"
    \/ Len(h) = 4 /\ h[1] = "www" /\ h[3] = "uscourts" /\ h[4] = "gov"

\* Line 186 on the word: "http", an optional "s", "://", the host, "/", then
\* everything up to the next quote, bracket or blank
direct_matches(w) ==
    IF w.url.scheme = "https" /\ direct_host(w.url.host)
        /\ w.wrap \in {"none", "plain"}
    THEN {[scheme |-> w.url.scheme, host |-> w.url.host,
           path |-> IF w.wrap = "plain" THEN w.url.path \o WrapperTail
                    ELSE IF w.dot THEN w.url.path \o <<".">>
                    ELSE w.url.path]}
    ELSE {}

\* url.endswith('.pdf')
endswith_pdf(u) == u.path # <<>> /\ u.path[Len(u.path)] = ".pdf"

\* extract_links_from_text(text): list(set(urls)) without the PDF links, as a
\* set (the order of a Python set is not fixed)
extract_links_from_text(text) ==
    LET wrapped == {unquote(c) : c \in UNION {govdelivery_matches(text[i]) :
                                               i \in 1..Len(text)}}
        urls == {u \in wrapped : mentions_uscourts(u)}
                    \cup UNION {direct_matches(text[i]) : i \in 1..Len(text)}
    IN  {u \in urls : ~endswith_pdf(u)}

InitLinks ==
    /\ NoRun
    /\ call \in {[fn |-> "extract_links_from_text", arg |-> text, out |-> {},
                  done |-> FALSE] : text \in BoundedSeq(BodyWords, MaxWords)}

ExtractLinks ==
    /\ call.fn = "extract_links_from_text"
    /\ ~call.done
    /\ call' = [call EXCEPT !.out = extract_links_from_text(call.arg),
                            !.done = TRUE]
    /\ UNCHANGED runVars

SpecLinks == InitLinks /\ [][ExtractLinks]_vars

\* ------------------- uscourts_scraper.extract_metadata_from_landing_page
\* The text of an <h1>, in pieces: "X" a word of the case name, "_" one
\* blank, "," a comma, a tag in brackets, a status word.
HeadingTokens ==
    {"X", "_", ",", "[OPINION]", "[ERRATA]", "Precedential", "Non-Precedential",
     "PRECEDENTIAL"}

\* soup.find("h1") found nothing
NoH1 == <<>>

\* A heading begins with a word
Headings == {<<"X">> \o r : r \in BoundedSeq(HeadingTokens, MaxHeading)}

\* Status words in the text of the page outside its <h1>
Phrases == {"Precedential", "Non-Precedential", "Nonprecedential", "PRECEDENTIAL"}

\* The url of the landing page, in pieces: scheme and host, directory, name
LandingUrl == <<"https://cafc.uscourts.gov", "/opinions-orders/", "23-1446">>

\* The href of an <a>, in pieces: scheme and host (an absolute url only),
\* directory (none in a href relative to the page), name, extension
HrefLocations ==
    {<<"https://www.govinfo.gov", "/opinions-orders/">>,
     <<"https://www.govinfo.gov", "/files/">>,
     <<"/opinions-orders/">>, <<"/files/">>, <<>>}

HrefExtensions == {".pdf", ".PDF", ".html"}

Hrefs == {l \o <<"a", e>> : l \in HrefLocations, e \in HrefExtensions}

\* soup.find_all("a", href=True) found nothing
NoAnchors == <<>>

\* A landing page that was fetched: its <h1>, the rest of its text and the
\* hrefs of its anchors in document order. Every heading on a page without
\* other status words, and every set of status words around a short heading.
Pages ==
    {[h1 |-> h, text |-> {}, anchors |-> NoAnchors] : h \in Headings \cup {NoH1}}
        \cup {[h1 |-> h, text |-> t, anchors |-> NoAnchors] :
                h \in {g \in Headings \cup {NoH1} : Len(g) <= 2},
                t \in SUBSET Phrases}

\* Every list of anchors on a page without heading
AnchorPages ==
    {[h1 |-> NoH1, text |-> {}, anchors |-> a] : a \in BoundedSeq(Hrefs, MaxAnchors)}

\* pdf_url is None
NoUrl == <<>>

\* Line 42: "/opinions-orders/" in href
in_opinions_orders(href) == \E i \in 1..Len(href) : href[i] = "/opinions-orders/"

\* Lines 42 and 51: href.endswith(".pdf"), letter case observed
href_endswith_pdf(href) == href # <<>> /\ href[Len(href)] = ".pdf"

\* urljoin(landing_url, href): an absolute href as it is, a href that
\* begins with "/" on the host of the page, any other in its directory
urljoin(base, href) ==
    IF href[1] \notin {"/opinions-orders/", "/files/", "a"} THEN href
    ELSE IF href[1] = "a" THEN <<base[1], base[2]>> \o href
    ELSE <<base[1]>> \o href

\* Lines 38-45: the first anchor into the opinions directory that ends in
\* .pdf, joined to the url of the page; the loop breaks at it
RECURSIVE opinions_orders_pdf(_)
opinions_orders_pdf(anchors) ==
    IF anchors = <<>> THEN NoUrl
    ELSE IF in_opinions_orders(anchors[1]) /\ href_endswith_pdf(anchors[1])
    THEN urljoin(LandingUrl, anchors[1])
    ELSE opinions_orders_pdf(Tail(anchors))

\* Lines 49-54: the first anchor that ends in .pdf
RECURSIVE any_pdf(_)
any_pdf(anchors) ==
    IF anchors = <<>> THEN NoUrl
    ELSE IF href_endswith_pdf(anchors[1])
    THEN urljoin(LandingUrl, anchors[1])
    ELSE any_pdf(Tail(anchors))

\* (mutant) lines 35-57 without the first loop: any PDF anchor will do
page_pdf_url_any(page) == any_pdf(page.anchors)

\* Lines 35-57
page_pdf_url(page) ==
    IF opinions_orders_pdf(page.anchors) # NoUrl
    THEN opinions_orders_pdf(page.anchors)
    ELSE any_pdf(page.anchors)

\* soup.get_text(): the text of the whole page, the <h1> included
page_text(page) == {page.h1[i] : i \in 1..Len(page.h1)} \cup page.text

\* The literals of lines 75 and 77 that occur in a piece of text, letter
\* case observed
literals_in(t) ==
    CASE t = "Precedential" -> {"Precedential"}
      [] t = "Non-Precedential" -> {"Precedential", "Non-Precedential"}
      [] t = "Nonprecedential" -> {"Nonprecedential"}
      [] OTHER -> {}

\* literal in page_text
contains(text, literal) == \E t \in text : literal \in literals_in(t)

\* (mutant) lines 75-78 without the test for the two negative spellings
page_is_precedential_any(page) == contains(page_text(page), "Precedential")

\* Lines 72-78
page_is_precedential(page) ==
    /\ contains(page_text(page), "Precedential")
    /\ ~contains(page_text(page), "Non-Precedential")
    /\ ~contains(page_text(page), "Nonprecedential")

\* str.strip()
RECURSIVE lstrip(_)
lstrip(s) == IF s # <<>> /\ s[1] = "_" THEN lstrip(Tail(s)) ELSE s

RECURSIVE rstrip(_)
rstrip(s) ==
    IF s # <<>> /\ s[Len(s)] = "_" THEN rstrip(SubSeq(s, 1, Len(s) - 1)) ELSE s

strip(s) == rstrip(lstrip(s))

\* Line 66: (Precedential|Non-Precedential|Nonprecedential), re.IGNORECASE
StatusWords ==
    {"Precedential", "Non-Precedential", "Nonprecedential", "PRECEDENTIAL"}

\* Line 66: re.sub(r',?\s*(...)\s*$', '', case_text): a status word at the
\* end goes, with the blanks before it and one comma before those
sub_status(s) ==
    IF s # <<>> /\ rstrip(s)[Len(rstrip(s))] \in StatusWords
    THEN LET before == rstrip(SubSeq(rstrip(s), 1, Len(rstrip(s)) - 1))
         IN  IF before # <<>> /\ before[Len(before)] = ","
             THEN SubSeq(before, 1, Len(before) - 1)
             ELSE before
    ELSE s

\* Line 68: \[(OPINION|ORDER)\], letter case observed
Tags == {"[OPINION]", "[ORDER]"}

\* Line 68: re.sub(r'\s*\[(OPINION|ORDER)\]\s*', ' ', case_name): each tag
\* goes, with the blanks on both sides of it, for ONE blank
RECURSIVE sub_tag(_)
sub_tag(s) ==
    IF s = <<>> THEN <<>>
    ELSE IF lstrip(s) # <<>> /\ lstrip(s)[1] \in Tags
    THEN <<"_">> \o sub_tag(lstrip(Tail(lstrip(s))))
    ELSE <<s[1]>> \o sub_tag(Tail(s))

\* Lines 60-68: the case name; <<>> is None (no <h1>) or the empty string
page_case_name(page) ==
    IF page.h1 = NoH1 THEN <<>>
    ELSE strip(sub_tag(sub_status(strip(page.h1))))

InitPage ==
    /\ NoRun
    /\ \E pages \in {Pages, AnchorPages} :
        call \in {[fn |-> "extract_metadata_from_landing_page", arg |-> page,
                   out |-> [pdf_url |-> NoUrl, is_precedential |-> FALSE,
                            case_name |-> <<>>],
                   done |-> FALSE] : page \in pages}

ExtractMetadata ==
    /\ call.fn = "extract_metadata_from_landing_page"
    /\ ~call.done
    /\ call' = [call EXCEPT !.out = [pdf_url |-> page_pdf_url(call.arg),
                                     is_precedential |-> page_is_precedential(call.arg),
                                     case_name |-> page_case_name(call.arg)],
                            !.done = TRUE]
    /\ UNCHANGED runVars

SpecPage == InitPage /\ [][ExtractMetadata]_vars

\* ------------------------------------------------------------ properties
InSeq(x, seq) == \E i \in 1..Len(seq) : seq[i] = x

\* The run of process_court_emails has got past its gate
PastGate == pc \in {"search", "email", "link", "digest", "returned", "crashed"}

\* The run is over
RunOver == pc \in {"returned", "crashed", "exited"}

\* The summary file the pipeline is to write for such a link
ExpectedArtifact(a) ==
    Artifact(IF a.answer.prec THEN "precedential" ELSE "non-precedential",
             IF a.answer.meta THEN "dated" ELSE "stem", a.doc)

Attempt(i) == hist.attempts[i]
Attempted == 1..Len(hist.attempts)

\* A timeout or connection error meets this link: at the landing page, at
\* the PDF download or at a model call
NetworkError(p) ==
    \/ p.landing = "unreachable"
    \/ p.landing = "page" /\ ~p.download
    \/ p.text /\ p.api = "timeout"

\* The exceptions a missing credential raises: no credentials.json
\* (authenticate_gmail), no API key (_create_client)
MissingCredential == {"FileNotFoundError", "OpenAIError"}

\* One message with two links, so far answered as one precedential patent
\* opinion and one non-precedential non-patent opinion, all calls succeeding
C2_Scenario ==
    /\ apiKey /\ email_to
    /\ emails = 1
    /\ hist.links = 2
    /\ \A i \in Attempted :
        /\ Succeeds(Attempt(i).answer) /\ Attempt(i).answer.named
        /\ \/ Attempt(i).answer.prec /\ Attempt(i).answer.kind = "patent"
           \/ ~Attempt(i).answer.prec /\ Attempt(i).answer.kind = "nonpatent"
    /\ \A i, j \in Attempted :
        i # j => /\ Attempt(i).doc # Attempt(j).doc
                 /\ Attempt(i).answer.kind # Attempt(j).answer.kind

\* C1: a run without --force for a date that already has a summary file does
\* nothing: no mail search, no landing-page fetch, no PDF download, no model
\* call, no summary written, no digest sent, and it returns 0.
C1_GateSkipsProcessedDate ==
    (PastGate /\ ~force /\ hist.artifacts0 # {}) =>
        /\ pc = "returned"
        /\ rc = 0
        /\ eff = NoEffects
        /\ artifacts = hist.artifacts0
        /\ ~digest.called

C1_Witness ==
    /\ runs = 2
    /\ pc = "returned"
    /\ hist.gate = "skipped"
    /\ ~force
    /\ hist.artifacts0 # {}

\* C2: a run over one message with two landing links, one a precedential
\* patent opinion and one a non-precedential non-patent opinion, with every
\* fetch and model call succeeding and a recipient configured, ends normally
\* with two summary files, one in each subdirectory, and one digest with a
\* patent and a non-patent section.
C2_EndToEndTwoLinks ==
    (C2_Scenario /\ RunOver) =>
        /\ pc = "returned"
        /\ rc = 2
        /\ Cardinality(hist.written) = 2
        /\ \E a, b \in hist.written :
            a.sub = "precedential" /\ b.sub = "non-precedential"
        /\ eff.send = 1
        /\ Len(digest.sections.patent_precedential) = 1
        /\ Len(digest.sections.non_patent) = 1

\* C3: whatever the resolver and the download give for one link, every link
\* found in the run is attempted and the run ends by returning its count.
C3_EveryLinkAttempted ==
    (hist.links > 0 /\ RunOver) =>
        /\ pc = "returned"
        /\ Len(hist.attempts) = hist.links

\* C4: a timeout or connection error of the landing-page fetch, of the PDF
\* download or of a model call skips that link only; the run goes on.
C4_NetworkErrorSkipsLink ==
    \A i \in Attempted :
        NetworkError(Attempt(i).answer) => ~(pc = "crashed" /\ i = Len(hist.attempts))

\* C5: when the run is over, the summary file of every link that succeeded
\* is on disk, and with a recipient and a record the digest was attempted.
C5_PartialSuccess ==
    RunOver =>
        /\ \A i \in Attempted :
            (apiKey /\ Succeeds(Attempt(i).answer)) =>
                ExpectedArtifact(Attempt(i)) \in artifacts
        /\ (email_to /\ hist.written # {}) => digest.called

C9_DismissalsOnlyInDispositions ==
    digest.sent =>
        \A i \in 1..Len(digest.handed) :
            LET s == digest.handed[i]
            IN  s.is_rule_42b_dismissal =>
                    /\ InSeq(s, digest.sections.dismissals)
                    /\ ~InSeq(s, digest.sections.patent_precedential)
                    /\ ~InSeq(s, digest.sections.patent_non_precedential)
                    /\ ~InSeq(s, digest.sections.non_patent)

C9_Witness ==
    /\ digest.sent
    /\ \E i \in 1..Len(digest.handed) :
        LET s == digest.handed[i]
        IN  /\ s.is_rule_42b_dismissal /\ s.is_patent_case /\ s.is_precedential
            /\ InSeq(s, digest.sections.dismissals)

\* C10: a document that is a Rule 36 affirmance, once its link has been
\* processed, has a record in the run's collection with the affirmance flag
\* set, and in a digest that record is under the summary dispositions and
\* not under the patent or non-patent cases.
C10_AffirmanceRouted ==
    \A i \in Attempted :
        LET a == Attempt(i)
        IN  (/\ apiKey /\ Succeeds(a.answer) /\ a.answer.named
             /\ a.answer.kind = "rule36") =>
                /\ \E k \in 1..Len(summaries) :
                    /\ summaries[k].case_name = a.doc
                    /\ summaries[k].is_rule_36_affirmance
                /\ digest.sent =>
                    \E k \in 1..Len(digest.sections.affirmances) :
                        digest.sections.affirmances[k].case_name = a.doc

\* The function fn has been called on its own and has ended
Called(fn) == call.fn = fn /\ call.done

\* The answers the claim calls unparseable: everything but a JSON object,
\* alone or inside prose
Unparseable == OtherShapes \cup {"array_object"}

\* C11: every result of the classification step whose is_rule_42b_dismissal
\* is true has an empty patent-issue list and an empty holdings text,
\* whatever the model's answer held.
C11_DismissalHasNoIssuesNoHoldings ==
    (/\ Called("_extract_structured_info")
     /\ call.out.raised = "none"
     /\ call.out.result.is_rule_42b_dismissal) =>
        /\ call.out.result.patent_law_issues = "[]"
        /\ call.out.result.major_holdings = ""

\* C12: for every answer to the structured request that does not parse as
\* the expected object (no JSON, empty, or JSON that is no object: an array,
\* a number, null), _extract_structured_info returns the all-default result
\* and does not raise.
C12_UnparseableGivesDefaults ==
    (Called("_extract_structured_info") /\ call.arg.shape \in Unparseable) =>
        /\ call.out.raised = "none"
        /\ call.out.result = default_structured_info

\* The host belongs to the court's domain
court_host(h) ==
    Len(h) >= 2 /\ h[Len(h) - 1] = "uscourts" /\ h[Len(h)] = "gov"

\* The body holds court URLs only, each written out or in a wrapper that
\* percent-encodes it
CourtUrlsOnly(text) ==
    \A i \in 1..Len(text) :
        /\ text[i].wrap \in {"none", "percent"}
        /\ text[i].url.scheme = "https"
        /\ court_host(text[i].url.host)

\* C14: for a body of redirect-wrapped and directly written court URLs,
\* extract_links_from_text returns exactly those URLs, each once, without
\* the ones that end in .pdf: none missing, none extra.
C14_ExactlyTheCourtLinks ==
    (Called("extract_links_from_text") /\ CourtUrlsOnly(call.arg)) =>
        call.out = {u \in {call.arg[i].url : i \in 1..Len(call.arg)} :
                        ~endswith_pdf(u)}

\* C15: every URL extract_links_from_text returns has scheme http or https
\* and a host in the court's domain; a wrapped target whose host is elsewhere
\* is not returned, even if its path or query names the domain.
C15_LinksAreCourtLinks ==
    Called("extract_links_from_text") =>
        \A u \in call.out :
            u.scheme \in {"http", "https"} /\ court_host(u.host)

\* C16: is_precedential is true exactly when the text of the page has the
\* word "Precedential" and has neither "Non-Precedential" nor
\* "Nonprecedential"; a page with "Non-Precedential" on it resolves to false.
C16_PrecedentialFlag ==
    Called("extract_metadata_from_landing_page") =>
        /\ call.out.is_precedential <=>
            /\ "Precedential" \in page_text(call.arg)
            /\ "Non-Precedential" \notin page_text(call.arg)
            /\ "Nonprecedential" \notin page_text(call.arg)
        /\ "Non-Precedential" \in page_text(call.arg) => ~call.out.is_precedential

\* A page with "Precedential" in its heading and "Non-Precedential" elsewhere
C16_Witness ==
    /\ Called("extract_metadata_from_landing_page")
    /\ \E i \in 1..Len(call.arg.h1) : call.arg.h1[i] = "Precedential"
    /\ "Non-Precedential" \in call.arg.text
    /\ ~call.out.is_precedential

\* The heading "X [OPINION], Precedential"
ExampleHeading == <<"X", "_", "[OPINION]", ",", "_", "Precedential">>

\* C17: the case name is the text of the first <h1> without its trailing
\* status suffix, without any document-type tag in brackets, and with its
\* whitespace collapsed; "X [OPINION], Precedential" gives "X".
C17_CaseNameCleaned ==
    (Called("extract_metadata_from_landing_page") /\ call.arg.h1 # NoH1) =>
        LET name == call.out.case_name
        IN  /\ \A i \in 1..Len(name) : name[i] \notin {"[OPINION]", "[ORDER]", "[ERRATA]"}
            /\ name = strip(name)
            /\ \A i \in 1..(Len(name) - 1) : ~(name[i] = "_" /\ name[i + 1] = "_")
            /\ call.arg.h1 = ExampleHeading => name = <<"X">>

\* A link of the run that the outside world lets through to a summary, on a
\* page with a heading, in a run with an API key and a recipient: the run
\* has a record to send
HasRecordToSend ==
    /\ apiKey /\ email_to
    /\ \E i \in Attempted : Succeeds(Attempt(i).answer) /\ Attempt(i).answer.named

C20_BothRunsProcess ==
    (/\ other.state = "ended" /\ RunOver
     /\ ~force /\ ~other.outcome.force
     /\ apiKey
     /\ other.outcome.linkOk
     /\ \E i \in Attempted : Succeeds(Attempt(i).answer)) =>
        /\ hist.gate = "passed" /\ other.outcome.gate = "passed"
        /\ hist.written # {} /\ other.outcome.written # {}

\* The landing page of this link gave no PDF url: the request failed
\* (lines 25-30) or the page has no anchor to a PDF (lines 35-57)
Unresolved(p) == p.landing \in {"unreachable", "nopdf"}

\* C21: an unreachable landing page gives (None, False, None); a link whose
\* page is unreachable or has no PDF anchor is skipped: process_uscourts_link
\* gives no path, no PDF is downloaded, no model is called, no summary file
\* is written for it, and the run does not stop at it.
C21_UnresolvedLinkSkipped ==
    \A i \in Attempted :
        LET a == Attempt(i)
        IN  Unresolved(a.answer) =>
                /\ a.answer.landing = "unreachable" =>
                    extract_metadata_from_landing_page(a.answer, a.doc)
                        = <<None, FALSE, None>>
                /\ process_uscourts_link(a.answer, a.doc)[1] = None
                /\ PdfDownloads(a.answer) = 0
                /\ \A x \in hist.written : x.d # a.doc
                /\ i = Len(hist.attempts) => eff.model = 0 /\ pc # "crashed"

\* The places of the anchors of the page whose href ends in .pdf, and of
\* those among them whose href has the opinions directory in it
PdfAnchors(page) ==
    {i \in 1..Len(page.anchors) : page.anchors[i][Len(page.anchors[i])] = ".pdf"}

OpinionPdfAnchors(page) ==
    {i \in PdfAnchors(page) :
        \E k \in 1..Len(page.anchors[i]) : page.anchors[i][k] = "/opinions-orders/"}

First(S) == CHOOSE i \in S : \A j \in S : i <= j

\* The href is the tail of the url, and the url begins with scheme and host
ResolvedFrom(url, href) ==
    /\ Len(url) >= Len(href)
    /\ SubSeq(url, Len(url) - Len(href) + 1, Len(url)) = href
    /\ url[1] \in {"https://cafc.uscourts.gov", "https://www.govinfo.gov"}
    /\ url[1] = "https://cafc.uscourts.gov" <=> href[1] # "https://www.govinfo.gov"

\* C22: the PDF url of a landing page is that of the first anchor, in
\* document order, whose href has the opinions directory in it and ends in
\* .pdf, whatever PDF anchors come before it; without such an anchor, that
\* of the first anchor whose href ends in .pdf; without any, None. A
\* relative href is resolved against the url of the page.
C22_PdfUrlSelection ==
    Called("extract_metadata_from_landing_page") =>
        LET page == call.arg
            url == call.out.pdf_url
        IN  /\ OpinionPdfAnchors(page) # {} =>
                ResolvedFrom(url, page.anchors[First(OpinionPdfAnchors(page))])
            /\ OpinionPdfAnchors(page) = {} /\ PdfAnchors(page) # {} =>
                ResolvedFrom(url, page.anchors[First(PdfAnchors(page))])
            /\ PdfAnchors(page) = {} => url = NoUrl

\* A PDF anchor outside the opinions directory comes first, a relative one
\* into the directory second, and the second is taken, on the page's host
C22_Witness ==
    /\ Called("extract_metadata_from_landing_page")
    /\ Len(call.arg.anchors) = 3
    /\ call.arg.anchors[1] = <<"https://www.govinfo.gov", "/files/", "a", ".pdf">>
    /\ call.arg.anchors[2] = <<"/opinions-orders/", "a", ".pdf">>
    /\ call.arg.anchors[3] = <<"https://www.govinfo.gov", "/opinions-orders/", "a", ".pdf">>
    /\ call.out.pdf_url = <<"https://cafc.uscourts.gov", "/opinions-orders/", "a", ".pdf">>

\* C23: a wrapped link whose percent-encoded target has a malformed escape
\* does not make extract_links_from_text raise, and contributes no URL: no
\* URL returned carries the malformed escape.
C23_MalformedEncodingSkipped ==
    Called("extract_links_from_text") =>
        \A i \in 1..Len(call.arg) :
            call.arg[i].wrap = "malformed" =>
                \A u \in call.out : ~InSeq(Malformed, u.path)

\* The run before this one
Earlier == other.outcome

\* C24: what marks a date as done is a summary file, not the date
\* directory. A run without --force that got past the gate and wrote no
\* summary file leaves the directory and nothing in it, and the next run
\* without --force is not stopped at the gate: it searches the mailbox
\* again.
C24_EmptyDirectoryIsNoMarker ==
    (other.state = "before" /\ ~Earlier.force /\ Earlier.gate = "passed"
            /\ Earlier.written = {}) =>
        /\ dateDir
        /\ hist.artifacts0 = {}
        /\ (~force /\ PastGate) =>
            /\ hist.gate = "passed"
            /\ pc \notin {"search", "crashed"} => eff.search = NumSenders

\* The first run found no message and returned; the second, also without
\* --force, has searched for every sender
C24_Witness ==
    /\ other.state = "before"
    /\ ~Earlier.force /\ Earlier.gate = "passed" /\ Earlier.pc = "returned"
    /\ Earlier.written = {}
    /\ dateDir /\ artifacts = {}
    /\ ~force
    /\ hist.gate = "passed"
    /\ eff.search = NumSenders
    /\ pc = "returned"

\* The run before this one got past the gate, had a link answered all the
\* way to a summary, and ended with an exception
StoppedPartWay ==
    /\ other.state = "before"
    /\ apiKey
    /\ Earlier.gate = "passed"
    /\ Earlier.linkOk
    /\ Earlier.pc = "crashed"

Buckets ==
    {"patent_precedential", "patent_non_precedential", "non_patent",
     "dismissals", "affirmances"}

\* The lists of the digest this record is rendered in
BucketsOf(s) == {b \in Buckets : InSeq(s, digest.sections[b])}

\* C26: the five lists of a digest are a partition of the records handed to
\* send_summary_email: every record is rendered in exactly one list, and the
\* lengths of the lists sum to the number of records, whatever the four
\* flags of the records are.
C26_BucketsPartition ==
    digest.sent =>
        /\ \A i \in 1..Len(digest.handed) :
            Cardinality(BucketsOf(digest.handed[i])) = 1
        /\ Len(digest.sections.patent_precedential)
            + Len(digest.sections.patent_non_precedential)
            + Len(digest.sections.non_patent)
            + Len(digest.sections.dismissals)
            + Len(digest.sections.affirmances) = Len(digest.handed)

====
